---------------------------- MODULE Spec2Model ----------------------------
(***************************************************************************)
(* Job-lifecycle engine of the scraper framework: the job store            *)
(* (Database, InMemoryDatabase, BunSqlDatabase in src/src/database.ts) and *)
(* the per-stage worker pool (ScraperProcessor in src/example/index.ts).   *)
(*                                                                         *)
(* Time is an integer clock `now` (milliseconds scaled down); a job's      *)
(* `date` is the clock value at which it was written.  Date.toISOString    *)
(* and new Date(iso) keep millisecond precision, so the integer is what    *)
(* both the write and the comparison see.                                  *)
(***************************************************************************)
EXTENDS Integers, Sequences, FiniteSets, TLC

\* ------------------------------------------------------------ configuration

\* Names of the two processors that share one store.
Stages == {"A", "B"}

\* The workers of each stage (run() starts `workers` loops per processor).
Workers == {"a1", "a2", "b1"}

StageOf(w) == IF w \in {"a1", "a2"} THEN "A" ELSE "B"

URLs == {"u1", "u2"}

\* ProcessorJob.error is optional: NoError stands for undefined / NULL.
NoError == "none"

\* constructor parameter maxAttempts (default 3)
MaxAttempts == 3

\* constructor parameter intervalMs, here a short re-crawl interval
IntervalMs == 0

\* constructor parameter version of the first run
InitialVersion == 1

\* LIMIT of BunSqlDatabase.query
QueryLimit == 20

\* ------------------------------------------------------------------- bounds

\* the clock runs from 0 to MaxTime
MaxTime == 1

\* number of add() calls in a behaviour
MaxAdds == 2

\* longest urls array passed to one add() call
MaxBatch == 2

\* number of times a processor is constructed again with the next version
MaxRestarts == 1

\* ---------------------------------------------------------------- variables

VARIABLES
    backend,                 \* "memory" (InMemoryDatabase) or "sql" (BunSqlDatabase)
    rethrow,                 \* run({rethrow}) option
    now,                     \* Date.now()
    version,                 \* processor.version, per stage
    jobs,                    \* the store's rows, in insertion order
    pendingUrls,             \* Database.pendingUrls, per stage
    timerArmed,              \* the debounce timer of insertManyUrlsWrapperDebounced
    newJobsEmit,             \* a .then(emit NEW_JOBS) callback is queued, per stage
    pendingJobs,             \* ScraperProcessor.pendingJobs, per stage
    currentlyProcessingUrls, \* ScraperProcessor.currentlyProcessingUrls, per stage
    getNextPendingJobMutex,  \* holder of the stage's mutex, or "free"
    pc,                      \* where each worker's loop stands
    job,                     \* the job a worker took from pendingJobs
    runFailed,               \* run() of the stage has rejected
    consecutiveFailures,     \* per (stage, url): failed attempts since the last success
    newJobsListeners,        \* workers whose `finish` listener is on NEW_JOBS
    jobProcessed,            \* the last JOB_PROCESSED event, as a listener saw it
    adds,                    \* add() calls made so far
    restarts                 \* constructions with a bumped version so far

vars == <<backend, rethrow, now, version, jobs, pendingUrls, timerArmed,
          newJobsEmit, pendingJobs, currentlyProcessingUrls,
          getNextPendingJobMutex, pc, job, runFailed, consecutiveFailures,
          newJobsListeners, jobProcessed, adds, restarts>>

\* ------------------------------------------------------------------ helpers

Range(s) == {s[i] : i \in DOMAIN s}

Min(a, b) == IF a < b THEN a ELSE b

\* All sequences over S of length 1..n (the urls argument of add()).
RECURSIVE SeqsUpTo(_, _)
SeqsUpTo(S, n) ==
    IF n = 0 THEN {<<>>}
    ELSE LET shorter == SeqsUpTo(S, n - 1)
         IN  shorter \cup {Append(q, x) : q \in shorter, x \in S}

UrlBatches == SeqsUpTo(URLs, MaxBatch) \ {<<>>}

NoJob == [url |-> "none", processor |-> "none", version |-> 0,
          attempt |-> 0, date |-> 0, error |-> NoError]

\* No JOB_PROCESSED event yet.  An event is recorded with the job it carries,
\* the stage's currentlyProcessingUrls as its listeners find it, and a bit
\* that flips with every emit.
NoEvent == [flip |-> FALSE, job |-> NoJob, inFlight |-> {}]

\* The row batchInsertUrls creates for a new url.
NewJob(url, s) ==
    [url |-> url, processor |-> s, version |-> version[s],
     attempt |-> 0, date |-> now, error |-> NoError]


\* ---------------------------------------------------------------- the store

\* DueInMemory with the bound of the retry test off by one.
DueInMemoryOffByOne(j, s) ==
    \/ j.attempt = 0
    \/ j.version # version[s]
    \/ (j.error # NoError /\ j.attempt <= MaxAttempts)
    \/ j.date < now - IntervalMs

\* The due-job test of InMemoryDatabase.query (the second filter).
DueInMemory(j, s) ==
    \/ j.attempt = 0
    \/ j.version # version[s]
    \/ (j.error # NoError /\ j.attempt < MaxAttempts)
    \/ j.date < now - IntervalMs

\* InMemoryDatabase.query: three filters over the rows, insertion order kept.
InMemoryQuery(s, inFlight) ==
    SelectSeq(jobs, LAMBDA j : /\ j.processor = s
                               /\ DueInMemory(j, s)
                               /\ j.url \notin inFlight)

\* The WHERE clause of BunSqlDatabase.query.
DueSql(j, s) ==
    /\ j.processor = s
    /\ \/ j.attempt = 0
       \/ (j.error # NoError /\ j.attempt < MaxAttempts)
       \/ j.version # version[s]
       \/ j.date < now - IntervalMs

\* ORDER BY date ASC: insertion of row j into a sequence sorted by date
\* (rows of equal date keep their table order).
RECURSIVE InsertByDate(_, _)
InsertByDate(sorted, j) ==
    IF sorted = <<>> THEN <<j>>
    ELSE IF sorted[Len(sorted)].date <= j.date THEN Append(sorted, j)
    ELSE Append(InsertByDate(SubSeq(sorted, 1, Len(sorted) - 1), j),
                sorted[Len(sorted)])

RECURSIVE OrderByDate(_)
OrderByDate(rows) ==
    IF rows = <<>> THEN <<>>
    ELSE InsertByDate(OrderByDate(SubSeq(rows, 1, Len(rows) - 1)),
                      rows[Len(rows)])

\* BunSqlDatabase.query: takes the processor only; the set of urls being
\* processed is not a parameter of the SELECT.
BunSqlQuery(s) ==
    LET due == OrderByDate(SelectSeq(jobs, LAMBDA j : DueSql(j, s)))
    IN  SubSeq(due, 1, Min(Len(due), QueryLimit))

\* database.query(processor, currentlyProcessingUrls)
Query(s, inFlight) ==
    IF backend = "memory" THEN InMemoryQuery(s, inFlight) ELSE BunSqlQuery(s)

HasRow(rows, url, s) ==
    \E i \in DOMAIN rows : rows[i].url = url /\ rows[i].processor = s

\* InMemoryBatchInsert whose filter compares the url only, not the processor.
InMemoryBatchInsertAnyStage(rows, urls, s) ==
    LET newUrls ==
            SelectSeq(urls, LAMBDA u : \A i \in DOMAIN rows : rows[i].url # u)
    IN  rows \o [i \in 1..Len(newUrls) |-> NewJob(newUrls[i], s)]

\* InMemoryDatabase.batchInsertUrls: the urls with no row yet are filtered
\* against this.jobs as it is before the push, then pushed all at once.
InMemoryBatchInsert(rows, urls, s) ==
    LET newUrls == SelectSeq(urls, LAMBDA u : ~HasRow(rows, u, s))
    IN  rows \o [i \in 1..Len(newUrls) |-> NewJob(newUrls[i], s)]

\* BunSqlDatabase.batchInsertUrls: INSERT OR IGNORE under
\* PRIMARY KEY (url, processor): a row is skipped when its key is present,
\* be it from an earlier statement or from an earlier row of this one.
RECURSIVE SqlBatchInsert(_, _, _)
SqlBatchInsert(rows, urls, s) ==
    IF urls = <<>> THEN rows
    ELSE SqlBatchInsert(IF HasRow(rows, Head(urls), s) THEN rows
                        ELSE Append(rows, NewJob(Head(urls), s)),
                        Tail(urls), s)

\* this.batchInsertUrls(urls, processor)
BatchInsertUrls(rows, urls, s) ==
    IF urls = <<>> THEN rows
    ELSE IF backend = "memory" THEN InMemoryBatchInsert(rows, urls, s)
    ELSE SqlBatchInsert(rows, urls, s)

\* Index of the row Array.find returns: the first with the url and processor.
FirstRow(rows, url, s) ==
    CHOOSE i \in DOMAIN rows :
        /\ rows[i].url = url /\ rows[i].processor = s
        /\ \A k \in 1..(i - 1) : ~(rows[k].url = url /\ rows[k].processor = s)

\* InMemoryDatabase.update: overwrites version, attempt, date and error of
\* the first matching row (the throw of the else branch leaves rows as is).
InMemoryUpdate(rows, j) ==
    IF HasRow(rows, j.url, j.processor)
    THEN [rows EXCEPT ![FirstRow(rows, j.url, j.processor)] =
              [@ EXCEPT !.version = j.version, !.attempt = j.attempt,
                        !.date = j.date, !.error = j.error]]
    ELSE rows

\* BunSqlDatabase.update: UPDATE ... SET <the keys of job> WHERE url, processor.
\* A job object without an error key leaves the error column as it is.
SqlUpdate(rows, j) ==
    [i \in DOMAIN rows |->
        IF rows[i].url = j.url /\ rows[i].processor = j.processor
        THEN [rows[i] EXCEPT !.version = j.version, !.attempt = j.attempt,
                             !.date = j.date,
                             !.error = IF j.error = NoError THEN @ ELSE j.error]
        ELSE rows[i]]

\* database.update(job)
Update(rows, j) ==
    IF backend = "memory" THEN InMemoryUpdate(rows, j) ELSE SqlUpdate(rows, j)

\* ------------------------------------------------- pending-insertion buffer

\* Database.pendingUrls is a Map keyed by processor: a sequence of entries
\* [processor, urls] in the order the keys were first set.
HasEntry(entries, s) == \E i \in DOMAIN entries : entries[i].processor = s

\* PushPending that never finds the processor's entry.
PushPendingNewEntry(entries, s, urls) ==
    Append(entries, [processor |-> s, urls |-> urls])

\* Database.add, lines 61-71: get-or-create the processor's array, push urls.
PushPending(entries, s, urls) ==
    IF HasEntry(entries, s)
    THEN [i \in DOMAIN entries |->
             IF entries[i].processor = s
             THEN [entries[i] EXCEPT !.urls = @ \o urls]
             ELSE entries[i]]
    ELSE Append(entries, [processor |-> s, urls |-> urls])

\* InsertPending that leaves the loop after its first entry.
InsertPendingFirstEntry(rows, entries) ==
    IF entries = <<>> THEN rows
    ELSE BatchInsertUrls(rows, Head(entries).urls, Head(entries).processor)

\* The loop over this.pendingUrls.entries() shared by the debounced flush and
\* close(): one batchInsertUrls per entry with urls, in Map order.
RECURSIVE InsertPending(_, _)
InsertPending(rows, entries) ==
    IF entries = <<>> THEN rows
    ELSE InsertPending(
            BatchInsertUrls(rows, Head(entries).urls, Head(entries).processor),
            Tail(entries))

\* The debounce helper (quiet period 100 ms, ceiling 200 ms): its callback is
\* due once a call has armed the timer and the timer has run out.
DebounceElapsed == timerArmed

\* The Mutex helper: with() enters when no other caller is inside.
MutexFree(s) == getNextPendingJobMutex[s] = "free"

\* ------------------------------------------------------------------ actions

Init ==
    /\ backend \in {"memory", "sql"}
    /\ rethrow \in BOOLEAN
    /\ now = 0
    /\ version = [s \in Stages |-> InitialVersion]
    /\ jobs = <<>>
    /\ pendingUrls = <<>>
    /\ timerArmed = FALSE
    /\ newJobsEmit = [s \in Stages |-> FALSE]
    /\ pendingJobs = [s \in Stages |-> <<>>]
    /\ currentlyProcessingUrls = [s \in Stages |-> {}]
    /\ getNextPendingJobMutex = [s \in Stages |-> "free"]
    /\ pc = [w \in Workers |-> "idle"]
    /\ job = [w \in Workers |-> NoJob]
    /\ runFailed = [s \in Stages |-> FALSE]
    /\ consecutiveFailures = [s \in Stages |-> [u \in URLs |-> 0]]
    /\ newJobsListeners = {}
    /\ jobProcessed = NoEvent
    /\ adds = 0
    /\ restarts = 0

\* processor.add(...urls) -> database.add(urls, processor): buffer the urls
\* and (re)arm the debounce timer.
Add(s, urls) ==
    /\ adds < MaxAdds
    /\ adds' = adds + 1
    /\ pendingUrls' = PushPending(pendingUrls, s, urls)
    /\ timerArmed' = TRUE
    /\ UNCHANGED <<backend, rethrow, now, version, jobs, newJobsEmit,
                   pendingJobs, currentlyProcessingUrls,
                   getNextPendingJobMutex, pc, job, runFailed,
                   consecutiveFailures, restarts,
                   newJobsListeners, jobProcessed>>

\* The debounce timer fires: insertManyUrlsWrapperDebounced's callback.
\* Every entry with urls is batch-inserted and its NEW_JOBS emit queued,
\* then the Map is cleared.
Flush ==
    /\ DebounceElapsed
    /\ timerArmed' = FALSE
    /\ jobs' = InsertPending(jobs, pendingUrls)
    /\ newJobsEmit' = [s \in Stages |->
                          newJobsEmit[s] \/ HasEntry(pendingUrls, s)]
    /\ pendingUrls' = <<>>
    /\ UNCHANGED <<backend, rethrow, now, version, pendingJobs,
                   currentlyProcessingUrls, getNextPendingJobMutex, pc, job,
                   runFailed, consecutiveFailures, adds, restarts,
                   newJobsListeners, jobProcessed>>

\* Close that inserts the first entry only before it clears the Map.
CloseFirstEntry ==
    /\ pendingUrls # <<>>
    /\ jobs' = InsertPendingFirstEntry(jobs, pendingUrls)
    /\ pendingUrls' = <<>>
    /\ UNCHANGED <<backend, rethrow, now, version, timerArmed, newJobsEmit,
                   pendingJobs, currentlyProcessingUrls,
                   getNextPendingJobMutex, pc, job, runFailed,
                   consecutiveFailures, adds, restarts,
                   newJobsListeners, jobProcessed>>

\* Database.close(): inserts what is pending and clears the Map; it neither
\* emits NEW_JOBS nor cancels the debounce timer.
Close ==
    /\ pendingUrls # <<>>
    /\ jobs' = InsertPending(jobs, pendingUrls)
    /\ pendingUrls' = <<>>
    /\ UNCHANGED <<backend, rethrow, now, version, timerArmed, newJobsEmit,
                   pendingJobs, currentlyProcessingUrls,
                   getNextPendingJobMutex, pc, job, runFailed,
                   consecutiveFailures, adds, restarts,
                   newJobsListeners, jobProcessed>>

\* Woken without the test `processor !== this`.
WokenAnyStage(s) == newJobsListeners

\* The registered `finish` listeners that act on NEW_JOBS for processor s:
\* a listener of another processor returns at `processor !== this`.
Woken(s) == {w \in newJobsListeners : StageOf(w) = s}

\* this.emit(NEW_JOBS, processor): every registered `finish` listener is
\* called; those of that processor remove themselves (database.off) and
\* resolve their worker's wait.
EmitNewJobs(s) ==
    /\ newJobsEmit[s]
    /\ newJobsEmit' = [newJobsEmit EXCEPT ![s] = FALSE]
    /\ newJobsListeners' = newJobsListeners \ Woken(s)
    /\ pc' = [w \in Workers |-> IF w \in Woken(s) THEN "locked" ELSE pc[w]]
    /\ UNCHANGED <<backend, rethrow, now, version, jobs, pendingUrls,
                   timerArmed, pendingJobs, currentlyProcessingUrls,
                   getNextPendingJobMutex, job, runFailed,
                   consecutiveFailures, adds, restarts, jobProcessed>>

\* Time passes.
Tick ==
    /\ now < MaxTime
    /\ now' = now + 1
    /\ UNCHANGED <<backend, rethrow, version, jobs, pendingUrls, timerArmed,
                   newJobsEmit, pendingJobs, currentlyProcessingUrls,
                   getNextPendingJobMutex, pc, job, runFailed,
                   consecutiveFailures, adds, restarts,
                   newJobsListeners, jobProcessed>>

\* The program is started again over the durable store with processor s
\* constructed with the next version (constructor, this.version = version).
\* Everything held in memory starts afresh; the rows stay.
Restart(s) ==
    /\ backend = "sql"
    /\ restarts < MaxRestarts
    /\ restarts' = restarts + 1
    /\ version' = [version EXCEPT ![s] = @ + 1]
    /\ pendingUrls' = <<>>
    /\ timerArmed' = FALSE
    /\ newJobsEmit' = [t \in Stages |-> FALSE]
    /\ pendingJobs' = [t \in Stages |-> <<>>]
    /\ currentlyProcessingUrls' = [t \in Stages |-> {}]
    /\ getNextPendingJobMutex' = [t \in Stages |-> "free"]
    /\ pc' = [w \in Workers |-> "idle"]
    /\ job' = [w \in Workers |-> NoJob]
    /\ runFailed' = [t \in Stages |-> FALSE]
    /\ consecutiveFailures' = [t \in Stages |-> [u \in URLs |-> 0]]
    /\ newJobsListeners' = {}
    /\ jobProcessed' = NoEvent
    /\ UNCHANGED <<backend, rethrow, now, jobs, adds>>

\* -------------------------------------------------------- the worker loop

\* SuccessOutcome that counts the attempt instead of resetting it to 1.
SuccessOutcomeCounting(w) ==
    [url |-> job[w].url, version |-> version[StageOf(w)],
     attempt |-> job[w].attempt + 1,
     date |-> now, processor |-> StageOf(w), error |-> NoError]

\* FailureOutcome that passes the version the job was read with.
FailureOutcomeOldVersion(w) ==
    [url |-> job[w].url, version |-> job[w].version,
     attempt |-> job[w].attempt + 1,
     date |-> now, processor |-> StageOf(w), error |-> NoError]

\* The job object processJob passes to database.update after the callbacks
\* succeeded (no error key).
SuccessOutcome(w) ==
    [url |-> job[w].url, version |-> version[StageOf(w)], attempt |-> 1,
     date |-> now, processor |-> StageOf(w), error |-> NoError]

\* The job object processJob passes to database.update in its catch branch
\* (no error key either).
FailureOutcome(w) ==
    [url |-> job[w].url, version |-> version[StageOf(w)],
     attempt |-> job[w].attempt + 1,
     date |-> now, processor |-> StageOf(w), error |-> NoError]

\* InMemoryDatabase.update throws when it finds no row.
UpdateThrows(rows, j) ==
    backend = "memory" /\ ~HasRow(rows, j.url, j.processor)

\* consecutiveFailures after one more failed attempt of (stage, url); the
\* history is kept only in the specifications that observe it.
FailureCounted(s, url, observed) ==
    IF observed = "failures"
    THEN [consecutiveFailures EXCEPT ![s][url] = Min(@ + 1, MaxAttempts)]
    ELSE consecutiveFailures

\* consecutiveFailures after a successful attempt of (stage, url).
FailuresCleared(s, url, observed) ==
    IF observed = "failures"
    THEN [consecutiveFailures EXCEPT ![s][url] = 0]
    ELSE consecutiveFailures

\* The finally block: this.currentlyProcessingUrls.delete(job.url).
Released(w) ==
    [currentlyProcessingUrls EXCEPT ![StageOf(w)] = @ \ {job[w].url}]

\* Emitted with the emit placed before the delete.
EmittedBeforeDelete(w, observed) ==
    IF observed = "events"
    THEN [flip |-> ~jobProcessed.flip, job |-> job[w],
          inFlight |-> currentlyProcessingUrls[StageOf(w)]]
    ELSE jobProcessed

\* The finally block: this.emit(JOB_PROCESSED, job), after the delete; the
\* events are kept only in the specifications that observe them.
Emitted(w, observed) ==
    IF observed = "events"
    THEN [flip |-> ~jobProcessed.flip, job |-> job[w],
          inFlight |-> Released(w)[StageOf(w)]]
    ELSE jobProcessed

\* run(): a worker calls getNextPendingJob and enters the mutex.
Lock(w) ==
    /\ pc[w] = "idle"
    /\ MutexFree(StageOf(w))
    /\ getNextPendingJobMutex' =
           [getNextPendingJobMutex EXCEPT ![StageOf(w)] = w]
    /\ pc' = [pc EXCEPT ![w] = "locked"]
    /\ UNCHANGED <<backend, rethrow, now, version, jobs, pendingUrls,
                   timerArmed, newJobsEmit, pendingJobs,
                   currentlyProcessingUrls, job, runFailed,
                   consecutiveFailures, adds, restarts,
                   newJobsListeners, jobProcessed>>

\* getNextPendingJob, loop body: pendingJobs is empty, so query the store;
\* push what it returns, or start waiting: the 1 s timeout is set and the
\* `finish` listener registered on NEW_JOBS.
QueryStore(w) ==
    LET s == StageOf(w)
        found == Query(s, currentlyProcessingUrls[s])
    IN  /\ pc[w] = "locked"
        /\ pendingJobs[s] = <<>>
        /\ IF found # <<>>
           THEN /\ pendingJobs' = [pendingJobs EXCEPT ![s] = @ \o found]
                /\ pc' = pc
                /\ newJobsListeners' = newJobsListeners
           ELSE /\ pendingJobs' = pendingJobs
                /\ pc' = [pc EXCEPT ![w] = "waiting"]
                /\ newJobsListeners' = newJobsListeners \cup {w}
        /\ UNCHANGED <<backend, rethrow, now, version, jobs, pendingUrls,
                       timerArmed, newJobsEmit, currentlyProcessingUrls,
                       getNextPendingJobMutex, job, runFailed,
                       consecutiveFailures, adds, restarts, jobProcessed>>

\* WaitTimeout whose callback removes the listener and forgets to resolve.
WaitTimeoutUnresolved(w) ==
    /\ pc[w] = "waiting"
    /\ newJobsListeners' = newJobsListeners \ {w}
    /\ UNCHANGED <<backend, rethrow, now, version, jobs, pendingUrls,
                   timerArmed, newJobsEmit, pendingJobs,
                   currentlyProcessingUrls, getNextPendingJobMutex, pc, job,
                   runFailed, consecutiveFailures, adds, restarts,
                   jobProcessed>>

\* getNextPendingJob: the setTimeout(..., 1000) of the wait fires; its
\* callback removes the listener (database.off) and resolves the wait.
WaitTimeout(w) ==
    /\ pc[w] = "waiting"
    /\ pc' = [pc EXCEPT ![w] = "locked"]
    /\ newJobsListeners' = newJobsListeners \ {w}
    /\ UNCHANGED <<backend, rethrow, now, version, jobs, pendingUrls,
                   timerArmed, newJobsEmit, pendingJobs,
                   currentlyProcessingUrls, getNextPendingJobMutex, job,
                   runFailed, consecutiveFailures, adds, restarts,
                   jobProcessed>>

\* getNextPendingJob: pendingJobs.shift(), return, and the mutex is left.
Shift(w) ==
    LET s == StageOf(w)
    IN  /\ pc[w] = "locked"
        /\ pendingJobs[s] # <<>>
        /\ job' = [job EXCEPT ![w] = Head(pendingJobs[s])]
        /\ pendingJobs' = [pendingJobs EXCEPT ![s] = Tail(@)]
        /\ getNextPendingJobMutex' =
               [getNextPendingJobMutex EXCEPT ![s] = "free"]
        /\ pc' = [pc EXCEPT ![w] = "acquired"]
        /\ UNCHANGED <<backend, rethrow, now, version, jobs, pendingUrls,
                       timerArmed, newJobsEmit, currentlyProcessingUrls,
                       runFailed, consecutiveFailures, adds, restarts,
                   newJobsListeners, jobProcessed>>

\* processJob begins (the worker's await has resumed):
\* currentlyProcessingUrls.add(job.url), then the download is awaited.
StartJob(w) ==
    /\ pc[w] = "acquired"
    /\ currentlyProcessingUrls' =
           [currentlyProcessingUrls EXCEPT ![StageOf(w)] = @ \cup {job[w].url}]
    /\ pc' = [pc EXCEPT ![w] = "downloading"]
    /\ UNCHANGED <<backend, rethrow, now, version, jobs, pendingUrls,
                   timerArmed, newJobsEmit, pendingJobs,
                   getNextPendingJobMutex, job, runFailed,
                   consecutiveFailures, adds, restarts,
                   newJobsListeners, jobProcessed>>

\* DownloadFail whose catch branch throws the error on whatever rethrow is.
DownloadFailThrowing(w, observed) ==
    /\ pc[w] = "downloading"
    /\ consecutiveFailures' = FailureCounted(StageOf(w), job[w].url, observed)
    /\ currentlyProcessingUrls' = Released(w)
    /\ job' = [job EXCEPT ![w] = NoJob]
    /\ pc' = [pc EXCEPT ![w] = "dead"]
    /\ runFailed' = [runFailed EXCEPT ![StageOf(w)] = TRUE]
    /\ jobProcessed' = Emitted(w, observed)
    /\ UNCHANGED <<backend, rethrow, now, version, jobs, pendingUrls,
                   timerArmed, newJobsEmit, pendingJobs,
                   getNextPendingJobMutex, adds, restarts, newJobsListeners>>

\* downloader.download rejects: with rethrow the error leaves processJob and
\* run() rejects; otherwise processJob returns.  Either way only the finally
\* block runs: the store is not called.
DownloadFail(w, observed) ==
    /\ pc[w] = "downloading"
    /\ consecutiveFailures' = FailureCounted(StageOf(w), job[w].url, observed)
    /\ currentlyProcessingUrls' = Released(w)
    /\ job' = [job EXCEPT ![w] = NoJob]
    /\ IF rethrow
       THEN /\ pc' = [pc EXCEPT ![w] = "dead"]
            /\ runFailed' = [runFailed EXCEPT ![StageOf(w)] = TRUE]
       ELSE /\ pc' = [pc EXCEPT ![w] = "idle"]
            /\ runFailed' = runFailed
    /\ jobProcessed' = Emitted(w, observed)
    /\ UNCHANGED <<backend, rethrow, now, version, jobs, pendingUrls,
                   timerArmed, newJobsEmit, pendingJobs,
                   getNextPendingJobMutex, adds, restarts, newJobsListeners>>

\* downloader.download resolves; processData is awaited.
DownloadOk(w) ==
    /\ pc[w] = "downloading"
    /\ pc' = [pc EXCEPT ![w] = "processing"]
    /\ UNCHANGED <<backend, rethrow, now, version, jobs, pendingUrls,
                   timerArmed, newJobsEmit, pendingJobs,
                   currentlyProcessingUrls, getNextPendingJobMutex, job,
                   runFailed, consecutiveFailures, adds, restarts,
                   newJobsListeners, jobProcessed>>

\* processData resolves: database.update is called with the success outcome
\* and awaited.  (A throw of update lands in the catch branch, which throws
\* it on or calls update again, which throws again: the finally block runs
\* and the worker ends.)
ProcessOk(w, observed) ==
    /\ pc[w] = "processing"
    /\ jobs' = Update(jobs, SuccessOutcome(w))
    /\ IF UpdateThrows(jobs, SuccessOutcome(w))
       THEN /\ pc' = [pc EXCEPT ![w] = "dead"]
            /\ runFailed' = [runFailed EXCEPT ![StageOf(w)] = TRUE]
            /\ currentlyProcessingUrls' = Released(w)
            /\ job' = [job EXCEPT ![w] = NoJob]
            /\ consecutiveFailures' =
                   FailureCounted(StageOf(w), job[w].url, observed)
            /\ jobProcessed' = Emitted(w, observed)
       ELSE /\ pc' = [pc EXCEPT ![w] = "reportedSuccess"]
            /\ runFailed' = runFailed
            /\ currentlyProcessingUrls' = currentlyProcessingUrls
            /\ job' = job
            /\ consecutiveFailures' =
                   FailuresCleared(StageOf(w), job[w].url, observed)
            /\ jobProcessed' = jobProcessed
    /\ UNCHANGED <<backend, rethrow, now, version, pendingUrls, timerArmed,
                   newJobsEmit, pendingJobs, getNextPendingJobMutex, adds,
                   restarts, newJobsListeners>>

\* processData rejects (a callback threw): with rethrow the error leaves
\* processJob through the finally block; otherwise database.update is called
\* with the failure outcome and awaited.
ProcessFail(w, observed) ==
    /\ pc[w] = "processing"
    /\ consecutiveFailures' = FailureCounted(StageOf(w), job[w].url, observed)
    /\ IF rethrow \/ UpdateThrows(jobs, FailureOutcome(w))
       THEN /\ jobs' = jobs
            /\ pc' = [pc EXCEPT ![w] = "dead"]
            /\ runFailed' = [runFailed EXCEPT ![StageOf(w)] = TRUE]
            /\ currentlyProcessingUrls' = Released(w)
            /\ job' = [job EXCEPT ![w] = NoJob]
            /\ jobProcessed' = Emitted(w, observed)
       ELSE /\ jobs' = Update(jobs, FailureOutcome(w))
            /\ pc' = [pc EXCEPT ![w] = "reportedFailure"]
            /\ runFailed' = runFailed
            /\ currentlyProcessingUrls' = currentlyProcessingUrls
            /\ job' = job
            /\ jobProcessed' = jobProcessed
    /\ UNCHANGED <<backend, rethrow, now, version, pendingUrls, timerArmed,
                   newJobsEmit, pendingJobs, getNextPendingJobMutex, adds,
                   restarts, newJobsListeners>>

\* The awaited database.update has resolved: the finally block runs (delete,
\* then emit JOB_PROCESSED) and the worker's loop comes round.
Finish(w, observed) ==
    /\ pc[w] \in {"reportedSuccess", "reportedFailure"}
    /\ currentlyProcessingUrls' = Released(w)
    /\ jobProcessed' = Emitted(w, observed)
    /\ job' = [job EXCEPT ![w] = NoJob]
    /\ pc' = [pc EXCEPT ![w] = "idle"]
    /\ UNCHANGED <<backend, rethrow, now, version, jobs, pendingUrls,
                   timerArmed, newJobsEmit, pendingJobs,
                   getNextPendingJobMutex, runFailed, consecutiveFailures,
                   adds, restarts, newJobsListeners>>

\* The steps of worker w: the continuations of its run() loop, its timeout,
\* and the settling of the download and of the callbacks it awaits.
WorkerStep(w) ==
    \/ Lock(w)
    \/ QueryStore(w)
    \/ WaitTimeout(w)
    \/ Shift(w)
    \/ StartJob(w)
    \/ DownloadFail(w, "none")
    \/ DownloadOk(w)
    \/ ProcessOk(w, "none")
    \/ ProcessFail(w, "none")
    \/ Finish(w, "none")

\* The steps of a program whose processors are S and whose workers are W;
\* `observed` names the history that is recorded: "failures" (the
\* consecutive failures per url), "events" (the JOB_PROCESSED events) or
\* "none".
Run(S, W, observed) ==
    \/ \E s \in S, urls \in UrlBatches : Add(s, urls)
    \/ Flush
    \/ Close
    \/ \E s \in S : EmitNewJobs(s)
    \/ Tick
    \/ \E s \in S : Restart(s)
    \/ \E w \in W : Lock(w)
    \/ \E w \in W : QueryStore(w)
    \/ \E w \in W : WaitTimeout(w)
    \/ \E w \in W : Shift(w)
    \/ \E w \in W : StartJob(w)
    \/ \E w \in W : DownloadFail(w, observed)
    \/ \E w \in W : DownloadOk(w)
    \/ \E w \in W : ProcessOk(w, observed)
    \/ \E w \in W : ProcessFail(w, observed)
    \/ \E w \in W : Finish(w, observed)

\* One processor run with two workers.
Next == Run({"A"}, {"a1", "a2"}, "none")

Spec == Init /\ [][Next]_vars

\* One processor run with one worker, its failures observed.
NextRetry == Run({"A"}, {"a1"}, "failures")

SpecRetry == Init /\ [][NextRetry]_vars

\* One processor run with one worker, its JOB_PROCESSED events observed.
NextEvents == Run({"A"}, {"a1"}, "events")

SpecEvents == Init /\ [][NextEvents]_vars

\* One processor run with one worker.  The event loop runs every
\* continuation that is ready and fires every timer that was set, and every
\* download and callback settles: the worker's steps are weakly fair.
NextWait == Run({"A"}, {"a1"}, "none")

SpecWait == Init /\ [][NextWait]_vars /\ WF_vars(WorkerStep("a1"))

\* Two processors on one in-memory store, each run with one worker in
\* default mode (the in-memory store does not outlive the program, so the
\* program is not started again).
InitStages == Init /\ backend = "memory" /\ ~rethrow

NextStages ==
    \/ \E s \in Stages, urls \in UrlBatches : Add(s, urls)
    \/ Flush
    \/ Close
    \/ \E s \in Stages : EmitNewJobs(s)
    \/ Tick
    \/ \E w \in {"a1", "b1"} : WorkerStep(w)

SpecStages == InitStages /\ [][NextStages]_vars

\* The store alone: two processors add urls to it (none of them running),
\* the debounce timer fires, the store is closed.  The debounce helper calls
\* its callback at the latest when its ceiling has passed since the first
\* call, which is the fairness of Flush.
NextStore ==
    \/ \E s \in Stages, urls \in UrlBatches : Add(s, urls)
    \/ Flush
    \/ Close
    \/ \E s \in Stages : EmitNewJobs(s)
    \/ Tick

SpecStore == Init /\ [][NextStore]_vars /\ WF_vars(Flush)

\* The due query as a pure function: the store holds any one or two rows
\* (of distinct keys), any set of urls is being processed, at any time, and
\* a worker of each stage queries it.
JobRows ==
    [url : URLs, processor : Stages,
     version : {InitialVersion, InitialVersion + 1},
     attempt : 0..MaxAttempts, date : 0..MaxTime,
     error : {NoError, "HTTP error"}]

InitQuery ==
    /\ backend = "memory"
    /\ rethrow = FALSE
    /\ now \in 0..MaxTime
    /\ version = [s \in Stages |-> InitialVersion]
    /\ jobs \in {<<r>> : r \in JobRows}
             \cup {<<r1, r2>> : r1 \in {r \in JobRows : r.url = "u1"},
                                r2 \in {r \in JobRows : r.url = "u2"}}
    /\ pendingUrls = <<>>
    /\ timerArmed = FALSE
    /\ newJobsEmit = [s \in Stages |-> FALSE]
    /\ pendingJobs = [s \in Stages |-> <<>>]
    /\ \E inFlight \in SUBSET URLs :
           currentlyProcessingUrls = [s \in Stages |-> inFlight]
    /\ getNextPendingJobMutex = [s \in Stages |-> "free"]
    /\ pc = [w \in Workers |-> "idle"]
    /\ job = [w \in Workers |-> NoJob]
    /\ runFailed = [s \in Stages |-> FALSE]
    /\ consecutiveFailures = [s \in Stages |-> [u \in URLs |-> 0]]
    /\ newJobsListeners = {}
    /\ jobProcessed = NoEvent
    /\ adds = 0
    /\ restarts = 0

NextQuery ==
    \/ \E w \in {"a1", "b1"} : Lock(w)
    \/ \E w \in {"a1", "b1"} : QueryStore(w)

SpecQuery == InitQuery /\ [][NextQuery]_vars

\* database.update as a function of the store and the job it is passed: the
\* store holds any one or two rows (of distinct keys), on either backend,
\* and worker a1 is about to report the outcome of a job of any url and
\* attempt, whether the store holds its row or not.
InitUpdate ==
    /\ backend \in {"memory", "sql"}
    /\ rethrow = FALSE
    /\ now \in 0..MaxTime
    /\ version = [s \in Stages |-> InitialVersion]
    /\ jobs \in {<<r>> : r \in JobRows}
             \cup {<<r1, r2>> : r1 \in {r \in JobRows : r.url = "u1"},
                                r2 \in {r \in JobRows : r.url = "u2"}}
    /\ pendingUrls = <<>>
    /\ timerArmed = FALSE
    /\ newJobsEmit = [s \in Stages |-> FALSE]
    /\ pendingJobs = [s \in Stages |-> <<>>]
    /\ \E u \in URLs, a \in 0..(MaxAttempts - 1) :
           /\ job = [w \in Workers |->
                        IF w = "a1"
                        THEN [NewJob(u, "A") EXCEPT !.attempt = a]
                        ELSE NoJob]
           /\ currentlyProcessingUrls =
                  [s \in Stages |-> IF s = "A" THEN {u} ELSE {}]
    /\ getNextPendingJobMutex = [s \in Stages |-> "free"]
    /\ pc = [w \in Workers |-> IF w = "a1" THEN "processing" ELSE "idle"]
    /\ runFailed = [s \in Stages |-> FALSE]
    /\ consecutiveFailures = [s \in Stages |-> [u \in URLs |-> 0]]
    /\ newJobsListeners = {}
    /\ jobProcessed = NoEvent
    /\ adds = 0
    /\ restarts = 0

NextUpdate ==
    \/ ProcessOk("a1", "none")
    \/ ProcessFail("a1", "none")
    \/ Finish("a1", "none")

SpecUpdate == InitUpdate /\ [][NextUpdate]_vars

\* ------------------------------------------------------------------- claims

\* The positions of a worker inside processJob.
InProcessJob ==
    {"downloading", "processing", "reportedSuccess", "reportedFailure"}

\* The indexes of the rows of key (s, url).
RowsOf(rows, s, url) ==
    {i \in DOMAIN rows : rows[i].url = url /\ rows[i].processor = s}

\* The rows the due query of stage s returns when nothing is in flight.
DueRows(s) == Range(Query(s, {}))

\* C1: the store holds one Job per (stage, url) pair that was added, however
\* often the pair was added (within one add call, across the add calls of one
\* flushed batch, or after its Job exists).
C1_OneJobPerPair ==
    \A s \in Stages, u \in URLs : Cardinality(RowsOf(jobs, s, u)) <= 1

\* C2: no two workers of one stage hold the same url at once, be it handed
\* out by getNextPendingJob or inside processJob.  Stated of the runs in which
\* the store holds one row per (stage, url), where two rows of one url are
\* not what hands the url out twice.
C2_NoUrlHeldTwice ==
    \A v, w \in Workers :
        (/\ C1_OneJobPerPair
         /\ v # w
         /\ StageOf(v) = StageOf(w)
         /\ pc[v] \in InProcessJob
         /\ pc[w] \in InProcessJob \cup {"acquired"})
        => job[v].url # job[w].url

\* The due-job predicate of the specification (conditions 1 to 4 and the
\* in-flight exclusion) for row j, stage s and in-flight set inFlight.
SelectionPredicate(j, s, inFlight) ==
    /\ j.processor = s
    /\ j.url \notin inFlight
    /\ \/ j.attempt = 0
       \/ (j.error # NoError /\ j.attempt < MaxAttempts)
       \/ j.version # version[s]
       \/ j.date < now - IntervalMs

\* Worker w has queried the store and not yet taken a job.
HasQueried(w) ==
    \/ pc[w] = "waiting"
    \/ pc[w] = "locked" /\ pendingJobs[StageOf(w)] # <<>>

\* C3: query(stage, inFlight) returns a job iff it belongs to the stage, its
\* url is not in flight, and one of the four conditions holds; the rows
\* returned are the rows a worker's query pushed to pendingJobs.
C3_QueryIsSelectionPredicate ==
    \A w \in Workers :
        HasQueried(w) =>
            \A i \in DOMAIN jobs :
                (jobs[i] \in Range(pendingJobs[StageOf(w)]))
                <=> SelectionPredicate(jobs[i], StageOf(w),
                                       currentlyProcessingUrls[StageOf(w)])

\* C3 witness: a query returned a row only for its retryable error, and left
\* out a row with attempt 1, no error, the stage's version and a fresh date.
C3_Witness ==
    \E w \in Workers :
        /\ HasQueried(w)
        /\ Len(jobs) = 2
        /\ \E i, k \in DOMAIN jobs :
              /\ jobs[i] \in Range(pendingJobs[StageOf(w)])
              /\ jobs[i].attempt = MaxAttempts - 1
              /\ jobs[i].error # NoError
              /\ jobs[i].version = version[StageOf(w)]
              /\ jobs[i].date = now
              /\ jobs[k] \notin Range(pendingJobs[StageOf(w)])
              /\ jobs[k].processor = StageOf(w)
              /\ jobs[k].attempt = 1
              /\ jobs[k].error = NoError
              /\ jobs[k].version = version[StageOf(w)]
              /\ jobs[k].date = now

\* Worker w's callback has just failed in default mode and the failure
\* outcome was written (the step of the catch branch).
CallbackFailureRecorded(w) ==
    pc[w] = "processing" /\ pc'[w] = "reportedFailure"

\* Worker w's download has just failed in default mode.
DownloadFailureHandled(w) ==
    pc[w] = "downloading" /\ pc'[w] = "idle"

\* Worker w's download and callbacks have just succeeded and the success
\* outcome was written.
SuccessRecorded(w) ==
    pc[w] = "processing" /\ pc'[w] = "reportedSuccess"

\* C4: in default mode a job whose callback failed with its resulting attempt
\* count below maxAttempts is due again right away (no version bump, no
\* interval elapsed).
C4_FailedJobIsRetried ==
    [][\A w \in Workers :
          (CallbackFailureRecorded(w) /\ job[w].attempt + 1 < MaxAttempts)
          => \E i \in RowsOf(jobs', StageOf(w), job[w].url) :
                 jobs'[i] \in DueRows(StageOf(w))']_vars

\* C5: with version and interval held constant, a job that failed
\* maxAttempts times in a row has attempt = maxAttempts and is not due.
C5_RetriesExhausted ==
    \A s \in Stages, u \in URLs :
        consecutiveFailures[s][u] >= MaxAttempts =>
            \A i \in RowsOf(jobs, s, u) :
                (jobs[i].version = version[s]
                 /\ ~(jobs[i].date < now - IntervalMs))
                => (jobs[i].attempt = MaxAttempts
                    /\ jobs[i] \notin DueRows(s))

\* C6: in default mode a failed download is reported to the store: the
\* stored attempt of the job is incremented by one.
C6_DownloadFailureCounted ==
    [][\A w \in Workers :
          DownloadFailureHandled(w)
          => \A i \in RowsOf(jobs, StageOf(w), job[w].url) :
                 jobs'[i].attempt = jobs[i].attempt + 1]_vars

\* C7: after a failed attempt recorded in default mode the stored Job has the
\* previous attempt plus one, error set to the failure, and the current time.
C7_FailureOutcomeStored ==
    [][\A w \in Workers :
          CallbackFailureRecorded(w)
          => LET i == FirstRow(jobs, job[w].url, StageOf(w))
             IN  /\ jobs'[i].attempt = jobs[i].attempt + 1
                 /\ jobs'[i].error # NoError
                 /\ jobs'[i].date = now]_vars

\* C8: after an attempt whose download and callbacks succeeded the stored Job
\* (the row update finds) has attempt 1, the stage's version, no error and
\* the current time, and, its interval not elapsed, the due query does not
\* return it.
C8_SuccessOutcomeStored ==
    [][\A w \in Workers :
          SuccessRecorded(w)
          => LET s == StageOf(w)
                 i == FirstRow(jobs, job[w].url, s)
             IN  /\ jobs'[i].attempt = 1
                 /\ jobs'[i].version = version[s]
                 /\ jobs'[i].error = NoError
                 /\ jobs'[i].date = now
                 /\ jobs'[i] \notin DueRows(s)']_vars

\* C8 witness: a success was written for a job taken with an attempt count
\* above 1, and its row now reads attempt 1.
C8_Witness ==
    \E w \in Workers :
        /\ pc[w] = "reportedSuccess"
        /\ job[w].attempt > 1
        /\ jobs[FirstRow(jobs, job[w].url, StageOf(w))].attempt = 1

\* Worker w has just written an outcome, of either kind.
OutcomeRecorded(w) == SuccessRecorded(w) \/ CallbackFailureRecorded(w)

C10_PoolStopsAfterFailure ==
    [][\A w \in Workers :
          runFailed[StageOf(w)]
          => /\ ~(pc[w] = "locked" /\ pc'[w] = "acquired")
             /\ ~(pc[w] = "acquired" /\ pc'[w] = "downloading")]_vars


\* C11: in default mode (rethrow = FALSE) no failed download and no failed
\* callback ends a worker: no worker ever leaves its loop and run() never
\* settles, whatever the outcomes of the jobs are.
C11_DefaultModeNeverStops ==
    ~rethrow =>
        /\ \A w \in Workers : pc[w] # "dead"
        /\ \A s \in Stages : ~runFailed[s]

\* Default mode: after attempts of u1 failed, the worker has been through
\* acquisition again and holds the next job.
C11_Witness ==
    /\ ~rethrow
    /\ consecutiveFailures["A"]["u1"] >= 2
    /\ pc["a1"] = "acquired"


\* A step in which worker w leaves processJob (by return or by throw).
LeavesProcessJob(w) ==
    /\ pc[w] \in InProcessJob
    /\ pc'[w] \notin InProcessJob
    /\ restarts' = restarts

\* C12: every call of processJob emits JOB_PROCESSED exactly once, carrying
\* the job it was called with, on whichever path it is left (failed
\* download, failed callback, success, error thrown on in fail-fast mode); a
\* listener of the event finds the job's url removed from
\* currentlyProcessingUrls; and no other step of the program emits it.
C12_EveryAttemptEmitsOnce ==
    [][/\ \A w \in Workers :
            LeavesProcessJob(w) =>
                /\ jobProcessed'.flip # jobProcessed.flip
                /\ jobProcessed'.job = job[w]
                /\ job[w].url \notin jobProcessed'.inFlight
       /\ (jobProcessed' # jobProcessed /\ restarts' = restarts) =>
              \E w \in Workers : LeavesProcessJob(w)]_vars

\* Fail-fast mode: an attempt of u1 succeeded and emitted its event, and
\* the attempt of u2 after it was left by a thrown error and emitted its own.
C12_Witness ==
    /\ rethrow
    /\ pc["a1"] = "dead"
    /\ jobProcessed.job.url = "u2"
    /\ ~jobProcessed.flip


\* url is in the pending-insertion buffer for stage s.
Pending(s, url) ==
    \E i \in DOMAIN pendingUrls :
        /\ pendingUrls[i].processor = s
        /\ url \in Range(pendingUrls[i].urls)

\* C13: every url passed to add(urls, stage) becomes durable.  When a url
\* leaves the pending buffer (the buffer is cleared) it has been passed to
\* the batch insert of its stage and has a Job row, and a row once written
\* stays; until then the due query of its stage returns no job of it unless
\* a row of an earlier add exists; and a buffer that holds urls is
\* eventually emptied, so every pending url eventually has its row.
C13_AddedUrlsBecomeDurable ==
    /\ [][\A s \in Stages, u \in URLs :
            /\ (Pending(s, u) /\ ~Pending(s, u)') => HasRow(jobs', u, s)
            /\ HasRow(jobs, u, s) => HasRow(jobs', u, s)
            /\ (~HasRow(jobs, u, s) /\ ~Pending(s, u) /\ Pending(s, u)') =>
                   \A r \in DueRows(s)' : r.url # u]_vars
    /\ (pendingUrls # <<>>) ~> (pendingUrls = <<>>)

\* Urls of two stages, added by two add calls, were inserted by one flush,
\* which queued the notification of both stages.
C13_Witness ==
    /\ HasRow(jobs, "u1", "A")
    /\ HasRow(jobs, "u2", "B")
    /\ newJobsEmit["A"] /\ newJobsEmit["B"]
    /\ pendingUrls = <<>>


\* The urls pending for stage s, in the order they were added.
PendingOf(entries, s) ==
    IF \E i \in DOMAIN entries : entries[i].processor = s
    THEN entries[CHOOSE i \in DOMAIN entries : entries[i].processor = s].urls
    ELSE <<>>

\* The entries of the buffer that belong to stage s.
RowsOfEntries(entries, s) ==
    {i \in DOMAIN entries : entries[i].processor = s}

\* The rows of stage s, in store order.
StageRows(rows, s) == SelectSeq(rows, LAMBDA r : r.processor = s)

\* A step in which the debounced flush runs.
FlushStep == timerArmed /\ ~timerArmed' /\ restarts' = restarts

\* C14: the add calls of one stage between two flushes are coalesced.  The
\* buffer never holds two entries of one stage; an add call appends its urls
\* to the entry of its stage and leaves the other entries alone; and a flush
\* changes the rows of each stage as one batch insert of all the urls pending
\* for the stage does.
C14_AddsAreCoalesced ==
    [][/\ \A s \in Stages :
            Cardinality(RowsOfEntries(pendingUrls', s)) <= 1
       /\ (adds' = adds + 1) =>
              \E s \in Stages, urls \in UrlBatches :
                  /\ PendingOf(pendingUrls', s) =
                         PendingOf(pendingUrls, s) \o urls
                  /\ \A o \in Stages \ {s} :
                         PendingOf(pendingUrls', o) = PendingOf(pendingUrls, o)
       /\ FlushStep =>
              \A s \in Stages :
                  StageRows(jobs', s) =
                      StageRows(BatchInsertUrls(jobs, PendingOf(pendingUrls, s),
                                                s), s)]_vars

\* Two add calls of stage A since the last flush wait in one entry.
C14_Witness ==
    /\ adds = 2
    /\ jobs = <<>>
    /\ Len(pendingUrls) = 1
    /\ pendingUrls[1].processor = "A"
    /\ Len(pendingUrls[1].urls) >= 2
    /\ timerArmed


\* A step in which close() runs with urls pending.
CloseStep ==
    /\ pendingUrls # <<>>
    /\ pendingUrls' = <<>>
    /\ timerArmed'
    /\ restarts' = restarts

\* C15: when close() has completed, every url that was pending has its Job
\* row and the pending buffer is empty; and the debounce timer that fires
\* after it inserts nothing and announces nothing.
C15_CloseFlushesEverything ==
    [][/\ CloseStep =>
              \A s \in Stages, u \in URLs :
                  Pending(s, u) => HasRow(jobs', u, s)
       /\ (FlushStep /\ pendingUrls = <<>>) =>
              /\ jobs' = jobs
              /\ newJobsEmit' = newJobsEmit
              /\ pendingUrls' = <<>>]_vars

\* close() has inserted the urls of both stages while the debounce timer of
\* the add calls is still to fire.
C15_Witness ==
    /\ pendingUrls = <<>>
    /\ timerArmed
    /\ HasRow(jobs, "u1", "A")
    /\ HasRow(jobs, "u2", "B")
    /\ ~newJobsEmit["A"] /\ ~newJobsEmit["B"]


\* A step in which worker w calls database.update with outcome j.
Reports(w, j) ==
    /\ pc[w] = "processing"
    /\ \/ pc'[w] = "reportedSuccess" /\ j = SuccessOutcome(w)
       \/ pc'[w] = "reportedFailure" /\ j = FailureOutcome(w)
       \/ pc'[w] = "dead"

\* C16: update of a (stage, url) pair without a row fails with a not-found
\* error (the worker's call throws), creates no row and leaves every Job as
\* it is; update of a pair with a row overwrites version, attempt, timestamp
\* and error of exactly that row; and no step removes a (stage, url) key
\* from the store.
C16_UpdateFailsWithoutRow ==
    [][/\ \A s \in Stages, u \in URLs : HasRow(jobs, u, s) => HasRow(jobs', u, s)
       /\ \A w \in Workers :
            \A j \in {SuccessOutcome(w), FailureOutcome(w)} :
               Reports(w, j) =>
                  IF HasRow(jobs, j.url, j.processor)
                  THEN /\ pc'[w] # "dead"
                       /\ Len(jobs') = Len(jobs)
                       /\ \A i \in DOMAIN jobs :
                              jobs'[i] =
                                 IF i = FirstRow(jobs, j.url, j.processor)
                                 THEN [jobs[i] EXCEPT
                                          !.version = j.version,
                                          !.attempt = j.attempt,
                                          !.date = j.date,
                                          !.error = j.error]
                                 ELSE jobs[i]
                  ELSE /\ pc'[w] = "dead"
                       /\ jobs' = jobs]_vars


\* C17: the due query returns its jobs oldest date first and at most
\* QueryLimit of them, so the jobs of one query are handed out in the order
\* of their dates.
C17_QueryOldestFirstBounded ==
    \A w \in Workers :
        HasQueried(w) =>
            LET found == pendingJobs[StageOf(w)]
            IN  /\ Len(found) <= QueryLimit
                /\ \A i, k \in DOMAIN found :
                       i < k => found[i].date <= found[k].date


\* The urls of the jobs the workers of stage s have been handed and have not
\* finished.
HeldUrls(s) ==
    {job[w].url : w \in {v \in Workers :
                            /\ StageOf(v) = s
                            /\ pc[v] \in {"acquired"} \cup InProcessJob}}

\* C18: a job's url is in currentlyProcessingUrls from the moment
\* getNextPendingJob hands the job out (the mutex is left) until its
\* attempt finishes: the set always equals the set of urls of the jobs that
\* are acquired and not finished.
C18_InFlightIsHeldUrls ==
    \A s \in Stages : currentlyProcessingUrls[s] = HeldUrls(s)


\* Some row of url u would be returned by the due query of stage s now, and
\* no worker of the stage holds a job of u.
DueAndFree(s, u) ==
    /\ \E r \in Range(Query(s, currentlyProcessingUrls[s])) : r.url = u
    /\ u \notin HeldUrls(s)

EmitStep(s) == newJobsEmit[s] /\ ~newJobsEmit'[s] /\ restarts' = restarts

\* C20: NEW_JOBS of a stage is raised only when the batch insert of that
\* stage's pending urls is done (their rows are in the store); it is scoped
\* by stage: emitted for stage s it ends no wait and removes no listener of
\* a worker of another stage; and a worker has its listener registered
\* exactly while it waits, so a wait that has ended leaves none.
C20_NotificationAfterInsertPerStage ==
    [][/\ \A s \in Stages :
            (~newJobsEmit[s] /\ newJobsEmit'[s]) =>
                \A u \in URLs : Pending(s, u) => HasRow(jobs', u, s)
       /\ \A s \in Stages :
            EmitStep(s) =>
                \A w \in Workers :
                    StageOf(w) # s =>
                        /\ pc'[w] = pc[w]
                        /\ (w \in newJobsListeners' <=> w \in newJobsListeners)
       /\ newJobsListeners' = {w \in Workers : pc'[w] = "waiting"}]_vars

\* The worker of stage A waits with its listener registered, the store
\* holds no row of stage A, and the flush that inserted u1 for stage B is
\* about to notify stage B.
C20_Witness ==
    /\ pc["a1"] = "waiting"
    /\ "a1" \in newJobsListeners
    /\ newJobsEmit["B"]
    /\ ~newJobsEmit["A"]
    /\ HasRow(jobs, "u1", "B")
    /\ \A u \in URLs : ~HasRow(jobs, u, "A")


\* A step in which a worker of stage s has database.update write an outcome.
ReportStep(s) ==
    \E w \in Workers :
        /\ StageOf(w) = s
        /\ pc[w] = "processing"
        /\ pc'[w] \in {"reportedSuccess", "reportedFailure"}

\* C21: stages that share one store are isolated.  The due query of a stage
\* returns jobs of that stage only, and so a worker holds jobs of its own
\* stage only; the rows of a stage change only when the urls pending for
\* that stage are inserted or a worker of that stage reports an outcome, and
\* the insert acts on them as if the rows of the other stages were not
\* there (a url that has a Job in one stage still gets its own Job in
\* another); and the in-flight set of a stage changes only in a step of a
\* worker of that stage.
C21_StagesAreIsolated ==
    [][\A o \in Stages :
          /\ \A i \in DOMAIN pendingJobs'[o] : pendingJobs'[o][i].processor = o
          /\ \A w \in Workers :
                (StageOf(w) = o /\ pc'[w] \in {"acquired"} \cup InProcessJob)
                => job'[w].processor = o
          /\ (StageRows(jobs', o) # StageRows(jobs, o)) =>
                \/ (FlushStep \/ CloseStep) /\ PendingOf(pendingUrls, o) # <<>>
                \/ ReportStep(o)
          /\ (FlushStep \/ CloseStep) =>
                StageRows(jobs', o) =
                    BatchInsertUrls(StageRows(jobs, o),
                                    PendingOf(pendingUrls, o), o)
          /\ (currentlyProcessingUrls'[o] # currentlyProcessingUrls[o]) =>
                \E w \in Workers : StageOf(w) = o /\ pc'[w] # pc[w]]_vars

\* u1 was added to both stages and has a Job in each: stage A has recorded
\* an outcome for it and is done with it, while stage B's Job of u1 is
\* untouched and in flight in stage B only.
C21_Witness ==
    /\ \E i \in DOMAIN jobs :
           jobs[i].url = "u1" /\ jobs[i].processor = "A" /\ jobs[i].attempt = 1
    /\ \E i \in DOMAIN jobs :
           jobs[i].url = "u1" /\ jobs[i].processor = "B" /\ jobs[i].attempt = 0
    /\ pc["a1"] = "idle"
    /\ pc["b1"] = "downloading"
    /\ job["b1"].url = "u1"
    /\ currentlyProcessingUrls = [s \in Stages |->
                                     IF s = "B" THEN {"u1"} ELSE {}]

=============================================================================
